---- MODULE Spec2Model ----
(***************************************************************************)
(* Model of main.py: the endless photo viewer for the Presto display.      *)
(* One sequential control flow (endless_photo_viewer); pc is its position. *)
(* Strings are sequences of one-character strings (plus a few multi-       *)
(* character tokens that contain no space), so str.replace is computed.    *)
(* The backlight is kept in tenths: level i stands for i / 10.0.           *)
(***************************************************************************)
EXTENDS Integers, Sequences, FiniteSets, TLC

\* ---------------------------------------------------------------- bounds
NumPrompts == 2      \* len(prompts) in the model (10 in main.py)
MaxCycles  == 3      \* loop iterations explored
MaxClock   == 1      \* int(time()) ranges over 0..MaxClock
MaxOld     == 4      \* entries a gallery directory may hold before clear_gallery
MaxDim     == 10     \* image width and height range over 1..MaxDim
WIDTH      == 4      \* display.get_bounds() in the model
HEIGHT     == 4

\* ------------------------------------------------------ program constants
RampSteps     == 11  \* range(11)
TicksPerUnit  == 22  \* clock ticks per time unit, so that 1.5 / 11 is whole
FadeDuration  == 33  \* 1.5 time units, in ticks
DelayUnits    == 7   \* sleep(7)
BacklightFull == 10  \* 1.0 in tenths
StatusOk      == 200

SD_DIR == <<"/sd/gallery">>

Letters == <<"a", "b", "c", "d", "e", "f">>

\* prompts[i] is a short two-word prompt: "<letter> w"
prompts == [i \in 1..NumPrompts |-> <<Letters[i], " ", "w">>]

\* ------------------------------------------------------------ Python values
None == <<>>                 \* None for a str-valued variable (falsy, like "")
NoData == [gen |-> -1, ok |-> FALSE, len |-> -1]   \* None for a bytes value

\* `if x:` on a str / bytes value
TruthyStr(s)  == Len(s) > 0
TruthyData(d) == d.len > 0

Digits == <<"0", "1", "2", "3", "4", "5", "6", "7", "8", "9">>

RECURSIVE ToStr(_)
\* str(n) for n >= 0
ToStr(n) == IF n < 10 THEN <<Digits[n + 1]>>
            ELSE ToStr(n \div 10) \o <<Digits[(n % 10) + 1]>>

\* s.replace(old, new) for a one-character old
Replace(s, old, new) == [i \in 1..Len(s) |-> IF s[i] = old THEN new ELSE s[i]]

\* f"{base_prompt} {timestamp}"
UniquePrompt(base_prompt, timestamp) == base_prompt \o <<" ">> \o ToStr(timestamp)

\* f"{SD_DIR}/{prompt.replace(' ', '_')}_{timestamp}.jpg"
FilePath(prompt, timestamp) ==
    SD_DIR \o <<"/">> \o Replace(prompt, " ", "_") \o <<"_">> \o ToStr(timestamp) \o <<".jpg">>

\* ------------------------------------------------------------- file system
Put(f, p, c) == [q \in (DOMAIN f) \cup {p} |-> IF q = p THEN c ELSE f[q]]

RemoveNoop(f, p) == f
RemoveFile(f, p) == [q \in (DOMAIN f) \ {p} |-> f[q]]

Exists(f, p) == p \in DOMAIN f

OldPath == SD_DIR \o <<"/">> \o <<"old.jpg">>
OldEntry(i) == SD_DIR \o <<"/">> \o <<"old", Digits[i + 1], ".jpg">>
OldData == [gen |-> -1, ok |-> TRUE, len |-> 1]

\* --------------------------------------------------------------- the display
TextFrame(m) == [kind |-> "text", msg |-> m, gen |-> -1]
ImgFrame(d)  == [kind |-> "img", msg |-> "", gen |-> d.gen]
BlackFrame   == [kind |-> "black", msg |-> "", gen |-> -1]
BlankFrame   == [kind |-> "blank", msg |-> "", gen |-> -1]

\* jpeg.open_file + jpeg.decode succeed iff the file is there and is a JPEG
Decodable(f, p) == Exists(f, p) /\ f[p].ok

\* display_image_on_layer: the layer's content after the call; an exception
\* is caught and the layer keeps what it had
DisplayImageOnLayer(f, p, layerContent) ==
    IF Decodable(f, p) THEN ImgFrame(f[p]) ELSE layerContent

\* jpegdec.JPEG(display) before any file is opened
NoJpeg == [width |-> 0, height |-> 0, x |-> 0, y |-> 0, scale |-> "none"]

\* line 143: half scale when the image is wider or higher than the display
Scale(img_width, img_height) ==
    IF img_width > WIDTH \/ img_height > HEIGHT THEN "half" ELSE "full"

\* lines 144-145: img_width // (2 if scale == JPEG_SCALE_HALF else 1)
Scaled(dim, scale) == dim \div (IF scale = "half" THEN 2 ELSE 1)

\* lines 146-147: (WIDTH - scaled_width) // 2, Python's floor division
Offset(display_dim, scaled_dim) == (display_dim - scaled_dim) \div 2

\* step_delay = 1.5 / len(brightness_steps), in ticks
StepDelay == FadeDuration \div RampSteps

\* sleep(7), in ticks
InterCycleDelay == DelayUnits * TicksPerUnit

\* f"https://image.pollinations.ai/prompt/{prompt.replace(' ', '%20')}"
Url(prompt) == <<"https://image.pollinations.ai/prompt/">> \o Replace(prompt, " ", "%20")

\* brightness_steps[i] in tenths, i in 0..10
BrightnessStepCoarse(i) == 2 * (i \div 2)
BrightnessStep(i) == i

VARIABLES
    pc,
    clock,            \* int(time())
    mounted,          \* /sd is mounted
    dirOnCard,        \* the card holds a gallery directory
    files,            \* the gallery directory: path -> content
    fb,               \* layer 0 of the frame buffer
    screen,           \* last frame pushed by presto.update()
    backlight,        \* last presto.set_backlight, in tenths
    prompt_index, prev_filepath, first_image,
    unique_prompt, next_image_data, next_filepath,
    step,             \* position in the brightness ramp
    cycles,           \* completed loop iterations
    snap,             \* state when this cycle's fetch was issued
    log,              \* what this cycle has done so far
    leaked,           \* a failed remove or a failed write has left a file behind
    jpeg              \* the decoder: size of the opened file, arguments of decode

vars == <<pc, clock, mounted, dirOnCard, files, fb, screen, backlight,
          prompt_index, prev_filepath, first_image,
          unique_prompt, next_image_data, next_filepath,
          step, cycles, snap, log, leaked, jpeg>>

dirExists == mounted /\ dirOnCard

\* outcome of each call of this cycle, how often each call was made, the URL
\* requested, the levels, presents and sleeps of the ramp running or last run,
\* the inter-cycle sleeps, and how the cycle before ended
EmptyLog == [fetch |-> "none", save |-> "none", decode |-> "none",
             transition |-> FALSE, remove |-> "none",
             fetches |-> 0, writes |-> 0, removes |-> 0, requested |-> <<>>,
             dir |-> "none", ramp |-> <<>>, presents |-> 0, slept |-> 0,
             rampTicks |-> 0, delays |-> 0, delay |-> 0,
             lastIndex |-> -1, lastSkipped |-> FALSE]

Snapshot(f, s, b, p, i) ==
    [files |-> f, screen |-> s, backlight |-> b, prev |-> p, index |-> i]

\* int(time()): the clock never goes back and may stand still
Now(t) == t \in clock..(IF clock < MaxClock THEN clock + 1 ELSE clock)

InitAt(clocks, n) ==
    /\ pc = "connect_to_wifi"
    /\ clock \in clocks
    /\ mounted = FALSE
    /\ dirOnCard \in BOOLEAN
    /\ files \in {<<>>, [p \in {OldPath} |-> OldData]}
    /\ (~dirOnCard => files = <<>>)
    /\ fb = BlankFrame
    /\ screen = BlankFrame
    /\ backlight = BacklightFull      \* Presto() starts with the backlight on
    /\ prompt_index = 0
    /\ prev_filepath = None
    /\ first_image = TRUE
    /\ unique_prompt = None
    /\ next_image_data = NoData
    /\ next_filepath = None
    /\ step = 0
    /\ cycles = n
    /\ snap = Snapshot(<<>>, BlankFrame, BacklightFull, None, 0)
    /\ log = EmptyLog
    /\ leaked = FALSE
    /\ jpeg = NoJpeg

Init == InitAt(0..MaxClock, 0)


\* display_text_on_screen(message): background, text, presto.update(), sleep(1)
ShowText(m) ==
    /\ fb' = TextFrame(m)
    /\ screen' = TextFrame(m)

\* ------------------------------------------------------------------ startup
\* connect_to_wifi(): returns once the link is up; the last text it shows is the
\* connected banner
connect_to_wifi ==
    /\ pc = "connect_to_wifi"
    /\ ShowText("Wi-Fi Connected")
    /\ pc' = "mount_sd"
    /\ UNCHANGED <<clock, mounted, dirOnCard, files, backlight, prompt_index,
                   prev_filepath, first_image, unique_prompt, next_image_data,
                   next_filepath, step, cycles, snap, log, leaked, jpeg>>

\* mount_sd(): any exception is caught and reported on screen; the caller is
\* told nothing
mount_sd ==
    /\ pc = "mount_sd"
    /\ \E success \in BOOLEAN :
          /\ mounted' = success
          /\ ShowText(IF success THEN "SD Card Mounted" ELSE "SD Card Mount Failed")
    /\ pc' = "clear_gallery"
    /\ UNCHANGED <<clock, dirOnCard, files, backlight, prompt_index,
                   prev_filepath, first_image, unique_prompt, next_image_data,
                   next_filepath, step, cycles, snap, log, leaked, jpeg>>

\* clear_gallery(): listdir, then remove entry by entry; an OSError (missing
\* directory, a failing remove) ends it with the entries not yet removed left
KeepAll(f, kept) == f
KeepOnly(f, kept) == [q \in kept |-> f[q]]

ClearGalleryEffect ==
    IF ~dirExists
      THEN /\ ShowText("Clearing Gallery...")
           /\ UNCHANGED files
      ELSE \E kept \in SUBSET (DOMAIN files) :
              /\ files' = KeepOnly(files, kept)
              /\ ShowText(IF kept = {} THEN "Gallery Cleared"
                                       ELSE "Clearing Gallery...")

clear_gallery ==
    /\ pc = "clear_gallery"
    /\ ClearGalleryEffect
    /\ pc' = "loop"
    /\ UNCHANGED <<clock, mounted, dirOnCard, backlight, prompt_index,
                   prev_filepath, first_image, unique_prompt, next_image_data,
                   next_filepath, step, cycles, snap, log, leaked, jpeg>>

\* ----------------------------------------------------------- the while loop
\* lines 216-222: pick the prompt, append the timestamp, show the one-time text
LoopTop(bounded) ==
    /\ pc = "loop"
    /\ (bounded => cycles < MaxCycles)
    /\ \E t \in 0..MaxClock :
          /\ Now(t)
          /\ clock' = t
          /\ unique_prompt' = UniquePrompt(prompts[prompt_index + 1], t)
    /\ IF first_image
         THEN ShowText("Fetching Image...")
         ELSE UNCHANGED <<fb, screen>>
    /\ first_image' = FALSE
    /\ snap' = Snapshot(files, screen', backlight, prev_filepath, prompt_index)
    /\ log' = [EmptyLog EXCEPT
                  !.lastIndex = IF cycles > 0 THEN snap.index ELSE -1,
                  !.lastSkipped = (cycles > 0 /\ log.save # "ok")]
    /\ pc' = "fetch"
    /\ UNCHANGED <<mounted, dirOnCard, files, backlight, prompt_index,
                   prev_filepath, next_image_data, next_filepath, step, cycles, leaked, jpeg>>

\* the loop explored for MaxCycles iterations
generate_unique_prompt == LoopTop(TRUE)

\* while True: the loop without an end
generate_unique_prompt_forever == LoopTop(FALSE)

\* what fetch_image returns: the body on status 200, None otherwise or when
\* urequests.get raised
FetchResultAnyStatus(raised, status, body) == IF raised THEN NoData ELSE body
FetchResult(raised, status, body) ==
    IF raised THEN NoData
    ELSE IF status = StatusOk THEN body ELSE NoData

\* bodies the endpoint may send: a JPEG, bytes that are no JPEG, nothing
Bodies == {[gen |-> cycles, ok |-> TRUE, len |-> 1],
           [gen |-> cycles, ok |-> FALSE, len |-> 1],
           [gen |-> cycles, ok |-> FALSE, len |-> 0]}

\* line 224-225: fetch_image(unique_prompt) and the test of its result
fetch_image ==
    /\ pc = "fetch"
    /\ \E raised \in BOOLEAN, status \in {StatusOk, 500}, body \in Bodies :
          /\ raised => (status = 500 /\ body.len = 0)
          /\ next_image_data' = FetchResult(raised, status, body)
          /\ log' = [log EXCEPT !.fetch =
                        IF raised THEN "raised"
                        ELSE IF status # StatusOk THEN "status"
                        ELSE IF body.len = 0 THEN "empty" ELSE "ok",
                                !.fetches = @ + 1,
                                !.requested = Url(unique_prompt)]
    /\ pc' = IF TruthyData(next_image_data') THEN "save" ELSE "advance"
    /\ UNCHANGED <<clock, mounted, dirOnCard, files, fb, screen, backlight,
                   prompt_index, prev_filepath, first_image, unique_prompt,
                   next_filepath, step, cycles, snap, leaked, jpeg>>

\* what save_image_to_sd returns
SaveResultAlways(failed, filepath) == filepath
SaveResult(failed, filepath) == IF failed THEN None ELSE filepath

\* lines 226-231: save_image_to_sd(unique_prompt, next_image_data) and the
\* branch on its result.  open() fails when the directory is not there; an
\* OSError from f.write leaves the file created and cut short
save_image_to_sd ==
    /\ pc = "save"
    /\ \E t \in 0..MaxClock, outcome \in {"ok", "open", "write"} :
          /\ Now(t)
          /\ clock' = t
          /\ (~dirExists => outcome = "open")
          /\ LET filepath == FilePath(unique_prompt, t) IN
             /\ files' = CASE outcome = "ok"    -> Put(files, filepath, next_image_data)
                           [] outcome = "write" -> Put(files, filepath,
                                                       [gen |-> next_image_data.gen,
                                                        ok |-> FALSE, len |-> 0])
                           [] OTHER             -> files
             /\ next_filepath' = SaveResult(outcome # "ok", filepath)
             /\ log' = [log EXCEPT !.save = outcome, !.writes = @ + 1]
             /\ leaked' = (leaked \/ outcome = "write")
    /\ pc' = IF TruthyStr(next_filepath')
               THEN (IF TruthyStr(prev_filepath) THEN "fade_out" ELSE "fade_in")
               ELSE "advance"
    /\ UNCHANGED <<mounted, dirOnCard, fb, screen, backlight, prompt_index,
                   prev_filepath, first_image, unique_prompt, next_image_data,
                   step, cycles, snap, jpeg>>

\* fade_out_image, line 107: the previous image is decoded again onto layer 0
fade_out_load ==
    /\ pc = "fade_out"
    /\ fb' = DisplayImageOnLayer(files, prev_filepath, fb)
    /\ step' = RampSteps - 1
    /\ log' = [log EXCEPT !.transition = TRUE, !.dir = "out", !.ramp = <<>>,
                          !.presents = 0, !.slept = 0]
    /\ pc' = "fade_out_ramp"
    /\ UNCHANGED <<clock, mounted, dirOnCard, files, screen, backlight,
                   prompt_index, prev_filepath, first_image, unique_prompt,
                   next_image_data, next_filepath, cycles, snap, leaked, jpeg>>

\* fade_out_image, lines 109-112: one pass of the loop over
\* reversed(brightness_steps)
fade_out_step ==
    /\ pc = "fade_out_ramp"
    /\ backlight' = BrightnessStep(step)
    /\ screen' = fb
    /\ log' = [log EXCEPT !.ramp = Append(@, backlight'),
                          !.presents = @ + 1,
                          !.slept = @ + StepDelay,
                          !.rampTicks = @ + StepDelay]
    /\ IF step > 0
         THEN /\ step' = step - 1
              /\ pc' = "fade_out_ramp"
         ELSE /\ step' = step
              /\ pc' = "fade_out_clear"
    /\ UNCHANGED <<clock, mounted, dirOnCard, files, fb, prompt_index,
                   prev_filepath, first_image, unique_prompt, next_image_data,
                   next_filepath, cycles, snap, leaked, jpeg>>

\* fade_out_image, lines 114-116: clear to black and present
fade_out_clear ==
    /\ pc = "fade_out_clear"
    /\ fb' = BlackFrame
    /\ screen' = BlackFrame
    /\ pc' = "fade_in"
    /\ UNCHANGED <<clock, mounted, dirOnCard, files, backlight, prompt_index,
                   prev_filepath, first_image, unique_prompt, next_image_data,
                   next_filepath, step, cycles, snap, log, leaked, jpeg>>

\* fade_in_image, line 125: decode the new file onto layer 0
fade_in_load ==
    /\ pc = "fade_in"
    /\ fb' = DisplayImageOnLayer(files, next_filepath, fb)
    /\ step' = 0
    /\ log' = [log EXCEPT !.transition = TRUE,
                          !.decode = IF Decodable(files, next_filepath)
                                       THEN "ok" ELSE "failed",
                          !.dir = "in", !.ramp = <<>>,
                          !.presents = 0, !.slept = 0]
    /\ pc' = "fade_in_ramp"
    /\ UNCHANGED <<clock, mounted, dirOnCard, files, screen, backlight,
                   prompt_index, prev_filepath, first_image, unique_prompt,
                   next_image_data, next_filepath, cycles, snap, leaked, jpeg>>

\* fade_in_image, lines 127-130: one pass of the loop over brightness_steps
fade_in_step ==
    /\ pc = "fade_in_ramp"
    /\ backlight' = BrightnessStep(step)
    /\ screen' = fb
    /\ log' = [log EXCEPT !.ramp = Append(@, backlight'),
                          !.presents = @ + 1,
                          !.slept = @ + StepDelay,
                          !.rampTicks = @ + StepDelay]
    /\ IF step < RampSteps - 1
         THEN /\ step' = step + 1
              /\ pc' = "fade_in_ramp"
         ELSE /\ step' = step
              /\ pc' = "fade_in_pin"
    /\ UNCHANGED <<clock, mounted, dirOnCard, files, fb, prompt_index,
                   prev_filepath, first_image, unique_prompt, next_image_data,
                   next_filepath, cycles, snap, leaked, jpeg>>

\* fade_in_image, lines 132-133, and the test of line 237
fade_in_pin ==
    /\ pc = "fade_in_pin"
    /\ backlight' = BacklightFull
    /\ screen' = fb
    /\ pc' = IF TruthyStr(prev_filepath) THEN "delete" ELSE "update_prev"
    /\ UNCHANGED <<clock, mounted, dirOnCard, files, fb, prompt_index,
                   prev_filepath, first_image, unique_prompt, next_image_data,
                   next_filepath, step, cycles, snap, log, leaked, jpeg>>

\* where control goes after the try/except of lines 238-242: the OSError is
\* caught, so line 245 is next either way
AfterRemoveSkipsUpdate(raised) == IF raised THEN "advance" ELSE "update_prev"
AfterRemove(raised) == "update_prev"

\* lines 238-242: uos.remove(prev_filepath); an OSError (no such file, an
\* I/O error) is caught and printed
delete_previous ==
    /\ pc = "delete"
    /\ \E ioError \in BOOLEAN :
          LET raised == ~Exists(files, prev_filepath) \/ ioError IN
          /\ IF ~raised
               THEN /\ files' = RemoveFile(files, prev_filepath)
                    /\ log' = [log EXCEPT !.remove = "ok", !.removes = @ + 1]
                    /\ leaked' = leaked
               ELSE /\ files' = files
                    /\ log' = [log EXCEPT !.remove = "failed", !.removes = @ + 1]
                    /\ leaked' = TRUE
          /\ pc' = AfterRemove(raised)
    /\ UNCHANGED <<clock, mounted, dirOnCard, fb, screen, backlight,
                   prompt_index, prev_filepath, first_image, unique_prompt,
                   next_image_data, next_filepath, step, cycles, snap, jpeg>>

\* line 245
update_prev ==
    /\ pc = "update_prev"
    /\ prev_filepath' = next_filepath
    /\ pc' = "advance"
    /\ UNCHANGED <<clock, mounted, dirOnCard, files, fb, screen, backlight,
                   prompt_index, first_image, unique_prompt, next_image_data,
                   next_filepath, step, cycles, snap, log, leaked, jpeg>>

\* line 248: (prompt_index + 1) % len(prompts)
NextIndexStuck(i) == i % NumPrompts
NextIndex(i) == (i + 1) % NumPrompts

advance ==
    /\ pc = "advance"
    /\ prompt_index' = NextIndex(prompt_index)
    /\ pc' = "sleep"
    /\ UNCHANGED <<clock, mounted, dirOnCard, files, fb, screen, backlight,
                   prev_filepath, first_image, unique_prompt, next_image_data,
                   next_filepath, step, cycles, snap, log, leaked, jpeg>>

\* how long line 249 sleeps: always the full delay, whatever the cycle did
DelayLessRamp(transitioned, rampTicks) ==
    IF transitioned THEN InterCycleDelay - rampTicks ELSE InterCycleDelay
DelayAfter(transitioned, rampTicks) == InterCycleDelay

\* line 249: sleep(7), then back to the top of the loop
InterCycleSleep(bounded) ==
    /\ pc = "sleep"
    /\ cycles' = IF bounded \/ cycles < MaxCycles THEN cycles + 1 ELSE cycles
    /\ log' = [log EXCEPT !.delays = @ + 1,
                          !.delay = @ + DelayAfter(log.transition, log.rampTicks)]
    /\ pc' = "loop"
    /\ UNCHANGED <<clock, mounted, dirOnCard, files, fb, screen, backlight,
                   prompt_index, prev_filepath, first_image, unique_prompt,
                   next_image_data, next_filepath, step, snap, leaked, jpeg>>

inter_cycle_sleep == InterCycleSleep(TRUE)

\* the same step when the iterations are no longer counted past MaxCycles
inter_cycle_sleep_forever == InterCycleSleep(FALSE)

Next ==
    \/ connect_to_wifi
    \/ mount_sd
    \/ clear_gallery
    \/ generate_unique_prompt
    \/ fetch_image
    \/ save_image_to_sd
    \/ fade_out_load
    \/ fade_out_step
    \/ fade_out_clear
    \/ fade_in_load
    \/ fade_in_step
    \/ fade_in_pin
    \/ delete_previous
    \/ update_prev
    \/ advance
    \/ inter_cycle_sleep

Spec == Init /\ [][Next]_vars

TypeOK ==
    /\ prompt_index \in 0..(NumPrompts - 1)
    /\ backlight \in 0..BacklightFull
    /\ step \in 0..(RampSteps - 1)
    /\ cycles \in 0..MaxCycles

\* ------------------------------------------------------------------ claims
FetchFailed == log.fetch \in {"raised", "status"}
SaveFailed  == log.save \in {"open", "write"}
Skipped     == {"advance", "sleep", "loop"}

\* files in the gallery written by this run of the program
Written == {p \in DOMAIN files : files[p].gen >= 0}

\* C1: the cursor advances by one modulo the number of prompts at the end of
\* every cycle, whatever the cycle did: after K completed cycles it is K mod N,
\* at the inter-cycle delay of the (K+1)th cycle it is (K+1) mod N, and it is
\* always in [0, N).
C1_CursorIsCyclesModN ==
    /\ prompt_index \in 0..(NumPrompts - 1)
    /\ (pc = "loop" => prompt_index = cycles % NumPrompts)
    /\ (pc = "sleep" => prompt_index = (cycles + 1) % NumPrompts)

\* a cycle whose fetch failed has just wrapped the cursor to 0
C1_Witness ==
    /\ pc = "sleep"
    /\ log.fetch = "status"
    /\ cycles + 1 = NumPrompts
    /\ prompt_index = 0

\* C2: whenever the previous file is about to be deleted, the new image has
\* been decoded and is what the screen shows, presented at full backlight.
C2_DeleteAfterNewImagePresented ==
    pc = "delete" =>
        /\ log.decode = "ok"
        /\ screen = ImgFrame(next_image_data)
        /\ backlight = BacklightFull

\* C3: in a cycle where the decode of the new file failed, the previous file
\* is not removed.
C3_DecodeFailureKeepsPreviousFile ==
    log.decode = "failed" => log.remove # "ok"

\* C4: after a cycle whose decode failed, the inter-cycle delay is reached with
\* the screen showing what it showed when the cycle began, at full backlight.
C4_DecodeFailureKeepsScreen ==
    (pc = "sleep" /\ log.decode = "failed") =>
        /\ screen = snap.screen
        /\ backlight = BacklightFull

\* C5: a cycle whose fetch failed (exception or non-200 status) goes straight
\* to the cursor advance and the delay; it writes and deletes no file, leaves
\* the screen, the backlight and prev_filepath as they were, and moves the
\* cursor by one.
C5_FetchFailureOnlyMovesCursor ==
    FetchFailed =>
        /\ pc \in Skipped
        /\ files = snap.files
        /\ screen = snap.screen
        /\ backlight = snap.backlight
        /\ prev_filepath = snap.prev
        /\ log.save = "none" /\ ~log.transition /\ log.remove = "none"
        /\ (pc = "advance" => prompt_index = snap.index)
        /\ (pc \in {"sleep", "loop"} =>
                prompt_index = (snap.index + 1) % NumPrompts)

\* a non-200 answer while an image is on screen, at the delay
C5_Witness ==
    /\ pc = "sleep"
    /\ log.fetch = "status"
    /\ TruthyStr(prev_filepath)
    /\ screen.kind = "img"

\* C6: a cycle whose save failed starts no transition, leaves the backlight and
\* the screen alone, removes nothing (the previous file is still there),
\* leaves prev_filepath as it was and goes to the cursor advance and the delay.
C6_SaveFailureSkipsCycle ==
    SaveFailed =>
        /\ pc \in Skipped
        /\ ~log.transition
        /\ backlight = snap.backlight
        /\ screen = snap.screen
        /\ log.remove = "none"
        /\ (Exists(snap.files, snap.prev) => Exists(files, snap.prev))
        /\ prev_filepath = snap.prev

\* a write that failed while a previous image is on screen, at the delay
C6_Witness ==
    /\ pc = "sleep"
    /\ log.save = "write"
    /\ TruthyStr(prev_filepath)
    /\ Exists(files, prev_filepath)

C8_ShownImageKeepsItsFile ==
    (pc = "sleep" /\ log.save = "ok" /\ log.decode = "ok") =>
        Exists(files, prev_filepath)

\* C9: a transition ends with the backlight at full and the screen showing the
\* new image; at the delay, once some cycle has succeeded, the backlight is
\* full.
C9_TransitionEndsFullShowingNew ==
    /\ pc \in {"delete", "update_prev"} =>
          /\ backlight = BacklightFull
          /\ screen = ImgFrame(next_image_data)
    /\ (pc = "sleep" /\ TruthyStr(prev_filepath)) => backlight = BacklightFull

\* C10: while a transition from a previous image to a new one is running, the
\* backlight is never at 0 and the frame on screen is never the cleared one.
C10_NoBlackFrameInTransition ==
    (pc \in {"fade_out_ramp", "fade_out_clear", "fade_in", "fade_in_ramp", "fade_in_pin"}
       /\ TruthyStr(prev_filepath)) =>
        /\ backlight > 0
        /\ screen.kind # "black"

\* C11: in the bootstrap case (no previous image) no backlight ramp is run, and
\* the backlight is at full whenever the first image is on layer 0.
C11_BootstrapWithoutFade ==
    ~TruthyStr(prev_filepath) =>
        /\ pc # "fade_in_ramp"
        /\ (fb.kind = "img" => backlight = BacklightFull)

\* C12: once mount_sd has failed the program goes no further: clear_gallery is
\* not run, the loop is not entered and nothing is fetched.
C12_MountFailureHalts ==
    (~mounted /\ pc \notin {"connect_to_wifi", "mount_sd"}) =>
        /\ pc = "clear_gallery"
        /\ log.fetch = "none"

\* C13: a failed delete of the previous file does not end the cycle early:
\* prev_filepath is still set to the new path, the cursor advances by one and
\* the inter-cycle delay is reached.
C13_DeleteFailureIsNotFatal ==
    log.remove = "failed" =>
        /\ pc \in {"update_prev", "advance", "sleep", "loop"}
        /\ (pc # "update_prev" => prev_filepath = next_filepath)
        /\ (pc \in {"update_prev", "advance"} => prompt_index = snap.index)
        /\ (pc \in {"sleep", "loop"} =>
                prompt_index = (snap.index + 1) % NumPrompts)

\* at the delay after a failed delete, the stale file still on the card
C13_Witness ==
    /\ pc = "sleep"
    /\ log.remove = "failed"
    /\ Exists(files, snap.prev)
    /\ prev_filepath # snap.prev

\* --------------------------------------------- clear_gallery on its own
\* clear_gallery applied twice in a row to any directory of up to MaxOld
\* entries, mounted or not, present or not
OldDirs == {[p \in {OldEntry(i) : i \in s} |-> OldData] : s \in SUBSET (1..MaxOld)}

InitClear ==
    /\ pc = "clear_gallery"
    /\ clock = 0
    /\ mounted \in BOOLEAN
    /\ dirOnCard \in BOOLEAN
    /\ files \in OldDirs
    /\ (~dirOnCard => files = <<>>)
    /\ fb = TextFrame("SD Card Mounted")
    /\ screen = TextFrame("SD Card Mounted")
    /\ backlight = BacklightFull
    /\ prompt_index = 0
    /\ prev_filepath = None
    /\ first_image = TRUE
    /\ unique_prompt = None
    /\ next_image_data = NoData
    /\ next_filepath = None
    /\ step = 0
    /\ cycles = 0
    /\ snap = Snapshot(files, screen, BacklightFull, None, 0)
    /\ log = EmptyLog
    /\ leaked = FALSE
    /\ jpeg = NoJpeg

\* one call of clear_gallery; snap keeps the directory and the screen the
\* call before left
ClearRun(from, to) ==
    /\ pc = from
    /\ ClearGalleryEffect
    /\ pc' = to
    /\ snap' = Snapshot(files, screen, backlight, None, 0)
    /\ UNCHANGED <<clock, mounted, dirOnCard, backlight, prompt_index,
                   prev_filepath, first_image, unique_prompt, next_image_data,
                   next_filepath, step, cycles, log, leaked, jpeg>>

clear_once == ClearRun("clear_gallery", "cleared_once")

clear_twice == ClearRun("cleared_once", "cleared_twice")

NextClear ==
    \/ clear_once
    \/ clear_twice

SpecClear == InitClear /\ [][NextClear]_vars

ClearReturned == pc \in {"cleared_once", "cleared_twice"}
ClearedOk == TextFrame("Gallery Cleared")
ClearFailed == TextFrame("Clearing Gallery...")

InitScale ==
    /\ pc = "open_file"
    /\ clock = 0
    /\ mounted = TRUE
    /\ dirOnCard = TRUE
    /\ files = <<>>
    /\ fb = BlankFrame
    /\ screen = BlankFrame
    /\ backlight = BacklightFull
    /\ prompt_index = 0
    /\ prev_filepath = None
    /\ first_image = TRUE
    /\ unique_prompt = None
    /\ next_image_data = NoData
    /\ next_filepath = None
    /\ step = 0
    /\ cycles = 0
    /\ snap = Snapshot(<<>>, BlankFrame, BacklightFull, None, 0)
    /\ log = EmptyLog
    /\ leaked = FALSE
    /\ \E w \in 1..MaxDim, h \in 1..MaxDim :
          jpeg = [NoJpeg EXCEPT !.width = w, !.height = h]

\* lines 142-148: get_width/get_height, the scale, the offsets, jpeg.decode
display_image_on_layer ==
    /\ pc = "open_file"
    /\ LET scale == Scale(jpeg.width, jpeg.height)
           scaled_width == Scaled(jpeg.width, scale)
           scaled_height == Scaled(jpeg.height, scale)
       IN jpeg' = [jpeg EXCEPT !.scale = scale,
                               !.x = Offset(WIDTH, scaled_width),
                               !.y = Offset(HEIGHT, scaled_height)]
    /\ pc' = "decoded"
    /\ UNCHANGED <<clock, mounted, dirOnCard, files, fb, screen, backlight,
                   prompt_index, prev_filepath, first_image, unique_prompt,
                   next_image_data, next_filepath, step, cycles, snap, log, leaked>>

NextScale == display_image_on_layer

SpecScale == InitScale /\ [][NextScale]_vars

Clamp0(n) == IF n < 0 THEN 0 ELSE n

\* C15: the scale is half iff the image is wider or higher than the display,
\* and each offset passed to the decoder is (display_dim - scaled_dim) floor-
\* divided by 2 with negative values clamped to zero, hence never negative.
C15_ScaleAndClampedOffsets ==
    pc = "decoded" =>
        /\ (jpeg.scale = "half") <=> (jpeg.width > WIDTH \/ jpeg.height > HEIGHT)
        /\ jpeg.scale \in {"half", "full"}
        /\ jpeg.x = Clamp0((WIDTH - Scaled(jpeg.width, jpeg.scale)) \div 2)
        /\ jpeg.y = Clamp0((HEIGHT - Scaled(jpeg.height, jpeg.scale)) \div 2)
        /\ jpeg.x >= 0 /\ jpeg.y >= 0

\* the URLs that ask for prompt number i (0-based), at any timestamp
UrlsFor(i) == {Url(UniquePrompt(prompts[i + 1], t)) : t \in 0..MaxClock}

\* C16: within one cycle at most one fetch, one file write and one delete are
\* issued, and the fetch of a cycle that follows a skipped cycle asks for the
\* prompt after the skipped one, not for the skipped one again.
C16_NoRetryWithinOrAfterCycle ==
    /\ log.fetches <= 1 /\ log.writes <= 1 /\ log.removes <= 1
    /\ (log.fetches = 1 /\ log.lastSkipped) =>
          /\ log.requested \in UrlsFor((log.lastIndex + 1) % NumPrompts)
          /\ (NumPrompts > 1 => log.requested \notin UrlsFor(log.lastIndex))

\* a cycle that fetched, wrote and deleted once each, right after a skipped one
C16_Witness ==
    /\ pc = "sleep"
    /\ log.lastSkipped
    /\ log.fetches = 1 /\ log.writes = 1 /\ log.removes = 1

\* C17: every cycle, skipped or not, ends with exactly one sleep of 7 time
\* units before the next prompt is selected; no such sleep happens earlier in
\* the cycle, and it is not shortened by the time the cycle's ramps took.
C17_OneFullDelayPerCycle ==
    /\ (pc = "loop" /\ cycles > 0) =>
          /\ log.delays = 1
          /\ log.delay = DelayUnits * TicksPerUnit
          /\ (log.transition =>
                log.rampTicks \in {FadeDuration, 2 * FadeDuration})
          /\ (~log.transition => log.rampTicks = 0)
    /\ (pc # "loop" \/ cycles = 0) => (log.delays = 0 /\ log.delay = 0)

\* back at the loop top after a cycle that faded out and in
C17_Witness ==
    /\ pc = "loop"
    /\ log.transition
    /\ log.rampTicks = 2 * FadeDuration
    /\ log.delays = 1

\* C18: the file a successful save has written is named
\* <base prompt with spaces as underscores>_<nonce>.jpg, where the nonce is the
\* timestamp of this cycle's request and appears once.
C18_FileNamedPromptAndNonce ==
    (log.save = "ok" /\ pc # "loop") =>
        \E t \in 0..MaxClock :
            /\ unique_prompt = UniquePrompt(prompts[snap.index + 1], t)
            /\ next_filepath =
                 SD_DIR \o <<"/">> \o Replace(prompts[snap.index + 1], " ", "_")
                        \o <<"_">> \o ToStr(t) \o <<".jpg">>

LevelsUp(n)   == [i \in 1..n |-> i - 1]
LevelsDown(n) == [i \in 1..n |-> RampSteps - i]

\* C19: a ramp sets the backlight to the levels 0, 1, ..., 10 (tenths) one
\* after the other when fading in and 10, 9, ..., 0 when fading out, with one
\* present and one sleep of a eleventh of the fade duration per level; a
\* finished ramp has set exactly 11 levels.
C19_RampIsElevenOrderedLevels ==
    /\ log.dir = "in"  => log.ramp = LevelsUp(Len(log.ramp))
    /\ log.dir = "out" => log.ramp = LevelsDown(Len(log.ramp))
    /\ log.dir = "none" => log.ramp = <<>>
    /\ log.presents = Len(log.ramp)
    /\ log.slept = Len(log.ramp) * StepDelay
    /\ RampSteps * StepDelay = FadeDuration
    /\ pc = "fade_in_ramp" => (log.dir = "in" /\ Len(log.ramp) = step)
    /\ pc = "fade_out_ramp" => (log.dir = "out" /\ Len(log.ramp) = 10 - step)
    /\ (pc = "fade_out_clear" \/ (pc = "fade_in" /\ TruthyStr(prev_filepath))) =>
          (log.dir = "out" /\ Len(log.ramp) = 11)
    /\ (log.dir = "in" /\ pc # "fade_in_ramp") => Len(log.ramp) = 11

\* a fade-in that has just set its last level, after a fade-out
C19_Witness ==
    /\ pc = "fade_in_pin"
    /\ log.ramp = <<0, 1, 2, 3, 4, 5, 6, 7, 8, 9, 10>>
    /\ log.rampTicks = 2 * FadeDuration

\* ------------------------------------------------ the loop without an end
\* Every step of the loop is a call that returns, so the step that is enabled
\* is eventually taken.
NextLive ==
    \/ connect_to_wifi
    \/ mount_sd
    \/ clear_gallery
    \/ generate_unique_prompt_forever
    \/ fetch_image
    \/ save_image_to_sd
    \/ fade_out_load
    \/ fade_out_step
    \/ fade_out_clear
    \/ fade_in_load
    \/ fade_in_step
    \/ fade_in_pin
    \/ delete_previous
    \/ update_prev
    \/ advance
    \/ inter_cycle_sleep_forever

\* The clock and the iteration count start at their bounds and stay there:
\* neither is read by any branch of the loop.
InitLive == InitAt({MaxClock}, MaxCycles)

SpecLive == InitLive /\ [][NextLive]_vars /\ WF_vars(NextLive)

\* C20: the loop never gets stuck: every cycle reaches its inter-cycle delay,
\* whatever fails in it, and every prompt of the list is requested again and
\* again.
C20_LoopNeverHalts ==
    /\ []<>(pc = "sleep")
    /\ \A i \in 0..(NumPrompts - 1) :
          []<>(pc \in {"save", "advance"} /\ log.fetches = 1
                 /\ log.save = "none" /\ log.requested \in UrlsFor(i))

\* the delay reached in a cycle whose decode and delete both failed
C20_Witness ==
    /\ pc = "sleep"
    /\ log.decode = "failed"
    /\ log.remove = "failed"

====
